---- MODULE Spec2Model ----
(***************************************************************************)
(* Model of SpotifyDownloader.py: the batch runner download_multiple_songs *)
(* and the per-item pipeline download_song_with_detailed_errors (metadata  *)
(* probes, three primary spotdl attempts, the yt-dlp fallback and its      *)
(* rename), over an output directory of mp3 files, and the decision        *)
(* function verify_download_completion.                                    *)
(*                                                                         *)
(* Strings are sequences of chunks: a chunk is a run of ordinary           *)
(* characters or one single path-unsafe character, so that the re.sub      *)
(* sanitisation is a real filter.  A file is a record of its size in bytes *)
(* and its modification time; the directory maps the names of the mp3      *)
(* files it holds to their records (DOMAIN dir is what glob("*.mp3")       *)
(* returns).                                                               *)
(***************************************************************************)
EXTENDS Integers, Sequences, FiniteSets, TLC

VARIABLES
    pc,                 \* position of the program
    i,                  \* download_multiple_songs: index of the current url (1-based)
    stats,              \* download_multiple_songs: stats dictionary
    fallback_downloads, \* download_multiple_songs: the list passed as fallback_list
    batch_result,       \* download_multiple_songs: returned value
    dir,                \* the output directory: name -> [size, mtime]
    song_info,          \* download_song_with_detailed_errors: display label or None
    expected_filename,  \* download_song_with_detailed_errors: predicted name or None
    existing_files,     \* download_song_with_detailed_errors: snapshot of line 671
    attempt,            \* download_song_with_detailed_errors: loop variable
    result,             \* outcome of the primary invocation that awaits its check
    clean_query,        \* download_song_with_detailed_errors: label used for the rename
    yt_success,         \* value returned by download_with_yt_dlp
    latest_file,        \* download_with_yt_dlp: the file max() found, or None
    success,            \* value returned by download_song_with_detailed_errors
    verify_result,      \* value returned by verify_download_completion
    \* history of the current item, kept for the properties
    primary_calls,      \* subprocess.run invocations of the primary tool
    fallback_calls,     \* calls of download_with_yt_dlp
    all_nonzero,        \* every primary invocation so far returned a non-zero exit code
    fb_before,          \* names in the directory when download_with_yt_dlp was called
    renamed_from,       \* the file handed to rename, or None
    via,                \* how the item ended: "primary", "fallback" or "none"
    fallback_expected,  \* labels of all items that succeeded through the fallback
    \* the reading of songs-to-download.txt
    line,               \* read_songs_from_file: one line of the file
    valid,              \* value returned by is_valid_spotify_track_url
    normalized_url,     \* value returned by normalize_spotify_url
    lines,              \* read_songs_from_file: the lines of the file
    read_result,        \* value returned by read_songs_from_file
    \* what the properties about other writers and about pairs of calls need
    foreign,            \* names of the files a party other than the tools placed
    twin,               \* the other call of a pair of calls, while this one runs
    \* the choice of the output directory
    folders,            \* the paths base, base0, base1, ... in the working directory
    output_dir,         \* download_multiple_songs: the chosen one, 0 before the choice
    \* fetch_playlist_urls (attempt and result are its loop variable and the
    \* end of its tool run as well)
    temp_metadata,      \* the file temp_playlist_metadata.spotdl
    save_calls,         \* subprocess.run invocations of "spotdl save"
    playlist_result,    \* value returned by fetch_playlist_urls
    error_summary       \* value returned by extract_spotdl_error

vars == <<pc, i, stats, fallback_downloads, batch_result, dir, song_info,
          expected_filename, existing_files, attempt, result, clean_query,
          yt_success, latest_file, success, verify_result, primary_calls,
          fallback_calls, all_nonzero, fb_before, renamed_from, via,
          fallback_expected, line, valid, normalized_url, lines, read_result,
          foreign, twin, folders, output_dir, temp_metadata, save_calls,
          playlist_result, error_summary>>

\* the variables of the reading of the input file
textVars == <<line, valid, normalized_url, lines, read_result>>

----------------------------------------------------------------------------
(* Bounds *)

\* number of urls in songs-to-download.txt
NumTracks == 2
\* most files one tool invocation writes
MaxWrites == 1

----------------------------------------------------------------------------
(* Values *)

None == <<>>

\* line 664
max_retries == 3

\* characters removed by re.sub(r'[<>:"/\\|?*]', '', ...)
UnsafeChars == {"<", ">", ":", "\"", "/", "\\", "|", "?", "*"}

\* the artist and the title the metadata services give for a track
KnownArtist == <<"AC", "/", "DC">>
KnownTitle == <<"T">>
\* lines 711-712
UnknownName == <<"Unknown">>

\* f"{artist} - {title}"
Label(artist, title) == artist \o <<" - ">> \o title

\* re.sub(r'[<>:"/\\|?*]', '', name)
Sanitize(name) == SelectSeq(name, LAMBDA c : c \notin UnsafeChars)

\* lines 733-734: new_name = f"{clean_query}.mp3"; safe_name = re.sub(...)
SafeName(query) == Sanitize(query \o <<".mp3">>)

\* file name yt-dlp derives from the title of the video, "%(title)s.%(ext)s"
VideoName == <<"Video", ".mp3">>

\* the names a file of the output directory can have
Names == {SafeName(Label(KnownArtist, KnownTitle)),
          SafeName(Label(UnknownName, UnknownName)),
          VideoName}

\* sizes in bytes: 10 KiB and 5 MiB
Sizes == {10240, 5242880}
Mtimes == {1, 2}
FileRec == [size : Sizes, mtime : Mtimes]

\* size / (1024 * 1024) > 0.1
AboveThreshold(size) == size * 10 > 1024 * 1024

\* the urls read_songs_from_file returns: distinct track references
urls == [k \in 1..NumTracks |-> k]

\* what one tool invocation can write into directory d: at most MaxWrites
\* files, under names d does not hold (lines 677-681 and 164-168: neither
\* command line carries the tool's overwrite option, so a path that exists
\* is skipped)
Writes(d) ==
    UNION {[W -> FileRec] :
             W \in {S \in SUBSET (Names \ DOMAIN d) : Cardinality(S) <= MaxWrites}}

\* the directory after a tool wrote the files w
Written(d, w) ==
    [n \in DOMAIN d \cup DOMAIN w |-> IF n \in DOMAIN w THEN w[n] ELSE d[n]]

\* max(files, key=lambda x: x.stat().st_mtime): the candidates for the maximum
Latest(d, files) == {f \in files : \A g \in files : d[g].mtime <= d[f].mtime}

----------------------------------------------------------------------------
(* Initial state: download_multiple_songs up to line 952, on the empty    *)
(* directory get_unique_download_folder hands out.                         *)

\* the variables of a program that has not started on an item
Idle ==
    /\ i = 1
    /\ stats = [total |-> Len(urls), success |-> 0, failed |-> 0, failed_urls |-> <<>>]
    /\ fallback_downloads = <<>>
    /\ batch_result = "none"
    /\ song_info = None
    /\ attempt = 0
    /\ result = "none"
    /\ clean_query = None
    /\ yt_success = FALSE
    /\ latest_file = None
    /\ success = FALSE
    /\ verify_result = "none"
    /\ primary_calls = 0
    /\ fallback_calls = 0
    /\ all_nonzero = TRUE
    /\ fb_before = {}
    /\ renamed_from = None
    /\ via = "none"
    /\ fallback_expected = <<>>

\* the variables of a program that has read no line
NoText ==
    /\ line = <<>>
    /\ valid = FALSE
    /\ normalized_url = <<>>
    /\ lines = <<>>
    /\ read_result = <<>>

\* the variables kept for the properties about other writers and pairs
\* the variables of the choice of the output directory
folderVars == <<folders, output_dir>>

\* the variables of fetch_playlist_urls
playlistVars == <<temp_metadata, save_calls, playlist_result>>

auxVars == <<foreign, twin, folderVars, playlistVars, error_summary>>

\* the output directory is given
NoFolder ==
    /\ folders = <<>>
    /\ output_dir = 0

\* no playlist is fetched
NoPlaylist ==
    /\ temp_metadata = <<>>
    /\ save_calls = 0
    /\ playlist_result = <<>>

\* no other writer, no second call
NoAux ==
    /\ foreign = {}
    /\ twin = <<>>
    /\ NoFolder
    /\ NoPlaylist
    /\ error_summary = <<>>

Init ==
    /\ pc = "loop"
    /\ dir = <<>>
    /\ expected_filename = None
    /\ existing_files = {}
    /\ Idle
    /\ NoText
    /\ NoAux

----------------------------------------------------------------------------
(* The metadata probes *)

\* lines 645-646 and 341-342: the default artist, the default title
UnknownArtist == <<"Unknown">>
UnknownTrack == <<"Unknown Track">>

\* the artists and the titles the metadata tool prints
Artists == {KnownArtist, <<"B">>}
Titles == {KnownTitle, <<"U", "?">>}

\* what json.loads gives for the output of the tool when it is a JSON
\* object: 'artists' is absent, an empty list, a list whose first element
\* has a name or has none, or a text; 'name' is absent or a text
JsonObjects ==
    [kind : {"object"}, artists : {"named"}, artist : Artists,
     name : {"present"}, title : Titles]
    \cup [kind : {"object"}, artists : {"named"}, artist : Artists,
          name : {"absent"}, title : {KnownTitle}]
    \cup [kind : {"object"}, artists : {"absent", "empty", "unnamed", "text"},
          artist : {KnownArtist}, name : {"present", "absent"}, title : {KnownTitle}]

\* an output that is no JSON object: nothing, blanks, no JSON, a JSON list
OtherOutput(k) ==
    [kind |-> k, artists |-> "absent", artist |-> KnownArtist,
     name |-> "absent", title |-> KnownTitle]

Outputs == JsonObjects \cup {OtherOutput(k) : k \in {"empty", "blank", "malformed", "list"}}

\* how subprocess.run(search_cmd, capture_output=True, text=True,
\* timeout=15) can end: it raises TimeoutExpired or OSError, or it returns
\* with a return code and the captured output
ProbeRuns ==
    [end : {"timeout", "oserror"}, stdout : {OtherOutput("empty")}]
    \cup [end : {"nonzero"},
          stdout : {OtherOutput("empty"),
                    CHOOSE o \in JsonObjects : o.artists = "named" /\ o.name = "present"}]
    \cup [end : {"zero"}, stdout : Outputs]

\* the values a try block can end with
Raised(exception) == [raised |-> exception, value |-> None]
Value(v) == [raised |-> "no", value |-> v]

\* lines 644-646 and 340-342: json.loads and the reading of the fields
ParsedLabel(stdout) ==
    IF stdout.kind = "malformed" THEN Raised("JSONDecodeError")
    ELSE IF stdout.kind = "list" THEN Raised("AttributeError")
    ELSE IF stdout.artists = "unnamed" THEN Raised("KeyError")
    ELSE IF stdout.artists = "text" THEN Raised("TypeError")
    ELSE Value(Label(IF stdout.artists = "named" THEN stdout.artist ELSE UnknownArtist,
                     IF stdout.name = "present" THEN stdout.title ELSE UnknownTrack))

\* lines 636-647 and 331-346: the try block up to its return; filename says
\* whether the label is returned as it is (line 647) or as a sanitized file
\* name (lines 343-346)
TryBlock(run, filename) ==
    IF run.end = "timeout" THEN Raised("TimeoutExpired")
    ELSE IF run.end = "oserror" THEN Raised("OSError")
    ELSE IF run.end = "zero" /\ run.stdout.kind \notin {"empty", "blank"}
    THEN LET parsed == ParsedLabel(run.stdout)
         IN  IF parsed.raised # "no" THEN parsed
             ELSE Value(IF filename THEN Sanitize(parsed.value \o <<".mp3">>)
                        ELSE parsed.value)
    ELSE Value(None)

\* lines 648-651 and 347-352 catching json.JSONDecodeError only
ExceptJsonOnly(body) ==
    IF body.raised = "JSONDecodeError" THEN Value(None) ELSE body

\* lines 648-651 and 347-352: "except: pass", then return None
Except(body) ==
    IF body.raised # "no" THEN Value(None) ELSE body

\* lines 634-651: get_song_info_for_display for one run of the tool
SongInfoForDisplay(run) ==
    Except(TryBlock(run, FALSE))

\* lines 329-352: get_expected_filename for one run of the tool
ExpectedFilename(run) ==
    Except(TryBlock(run, TRUE))

\* how a "spotdl search --print json" invocation with timeout=15 can end
ProbeOutcomes == {"json", "nonzero", "empty", "timeout", "badjson"}

\* the run of the tool behind each of these
RunOf(outcome) ==
    IF outcome = "json"
    THEN [end |-> "zero",
          stdout |-> [kind |-> "object", artists |-> "named", artist |-> KnownArtist,
                      name |-> "present", title |-> KnownTitle]]
    ELSE IF outcome = "nonzero" THEN [end |-> "nonzero", stdout |-> OtherOutput("empty")]
    ELSE IF outcome = "empty" THEN [end |-> "zero", stdout |-> OtherOutput("empty")]
    ELSE IF outcome = "timeout" THEN [end |-> "timeout", stdout |-> OtherOutput("empty")]
    ELSE [end |-> "zero", stdout |-> OtherOutput("malformed")]

\* get_song_info_for_display: the label, or None
GetSongInfoForDisplay(outcome) == SongInfoForDisplay(RunOf(outcome)).value

\* get_expected_filename: the sanitised predicted name, or None
GetExpectedFilename(outcome) == ExpectedFilename(RunOf(outcome)).value

----------------------------------------------------------------------------
(* download_song_with_detailed_errors *)

\* lines 957-965 and 658-671: the batch loop picks the next url, makes a
\* fresh fallback list and calls download_song_with_detailed_errors, which
\* probes the metadata and snapshots the directory
StartItem ==
    /\ pc = "loop"
    /\ i <= Len(urls)
    /\ fallback_downloads' = <<>>
    /\ \E o1 \in ProbeOutcomes, o2 \in ProbeOutcomes :
          /\ song_info' = GetSongInfoForDisplay(o1)
          /\ expected_filename' = GetExpectedFilename(o2)
    /\ existing_files' = DOMAIN dir
    /\ attempt' = 0
    /\ pc' = "primary"
    /\ UNCHANGED <<i, stats, batch_result, dir, result, clean_query,
                   yt_success, latest_file, success, verify_result,
                   primary_calls, fallback_calls, all_nonzero, fb_before,
                   renamed_from, via, fallback_expected>>
    /\ UNCHANGED textVars
    /\ UNCHANGED auxVars

\* how subprocess.run(cmd, timeout=timeout) of the primary tool can end
PrimaryOutcomes == {"zero", "nonzero", "timeout", "exception"}

\* lines 676-685: one invocation of "spotdl download"; the tool may leave
\* files whatever its exit code is, a failed launch leaves none
PrimaryInvoke ==
    /\ pc = "primary"
    /\ \E o \in PrimaryOutcomes, w \in Writes(dir) :
          /\ o = "exception" => w = <<>>
          /\ result' = o
          /\ dir' = Written(dir, w)
          /\ all_nonzero' = (all_nonzero /\ o = "nonzero")
    /\ primary_calls' = primary_calls + 1
    /\ pc' = "primary_check"
    /\ UNCHANGED <<i, stats, fallback_downloads, batch_result, song_info,
                   expected_filename, existing_files, attempt, clean_query,
                   yt_success, latest_file, success, verify_result,
                   fallback_calls, fb_before, renamed_from, via,
                   fallback_expected>>
    /\ UNCHANGED textVars
    /\ UNCHANGED auxVars

\* lines 688-689 without the difference: every file counts as new
NewFilesNoDiff(d, existing) == DOMAIN d \cup (existing \ existing)

\* lines 688-689: new_files = current_files - existing_files
NewFiles(d, existing) == DOMAIN d \ existing

\* the test of lines 690-695 counting all files of the directory, not the
\* new ones
PrimaryAcceptsAllFiles(d, existing) ==
    /\ Cardinality(DOMAIN d) = 1
    /\ \A f \in NewFiles(d, existing) : AboveThreshold(d[f].size)

\* the test of lines 690-695 with "one or more" new files, as the fallback
\* variant of line 868 has it
PrimaryAcceptsSome(d, existing) ==
    /\ Cardinality(NewFiles(d, existing)) >= 1
    /\ \A f \in NewFiles(d, existing) : AboveThreshold(d[f].size)

\* the test of lines 690-695 asking, as verify_download_completion does, for
\* the expected filename when there is one
PrimaryAcceptsExpected(d, existing) ==
    /\ Cardinality(NewFiles(d, existing)) = 1
    /\ \A f \in NewFiles(d, existing) :
          /\ AboveThreshold(d[f].size)
          /\ expected_filename # None => f = expected_filename

\* lines 690-695: exactly one new file, and it is above the threshold
PrimaryAccepts(d, existing) ==
    /\ Cardinality(NewFiles(d, existing)) = 1
    /\ \A f \in NewFiles(d, existing) : AboveThreshold(d[f].size)

\* the loop of line 674 going round once more
AfterFailedAttemptLong(a) == IF a < max_retries THEN "primary" ELSE "fallback"

\* the loop of line 674 with a budget one attempt short
AfterFailedAttemptShort(a) == IF a + 1 < max_retries - 1 THEN "primary" ELSE "fallback"

\* line 674: for attempt in range(max_retries): where control goes after
\* attempt number a (0-based) did not return
AfterFailedAttempt(a) == IF a + 1 < max_retries THEN "primary" ELSE "fallback"

\* lines 686-705: what the loop body does with the result of the invocation
PrimaryCheck ==
    /\ pc = "primary_check"
    /\ IF result = "zero" /\ PrimaryAccepts(dir, existing_files)
       THEN /\ success' = TRUE
            /\ via' = "primary"
            /\ pc' = "record"
            /\ UNCHANGED attempt
       ELSE /\ attempt' = attempt + 1
            /\ pc' = AfterFailedAttempt(attempt)
            /\ UNCHANGED <<success, via>>
    /\ result' = "none"
    /\ UNCHANGED <<i, stats, fallback_downloads, batch_result, dir, song_info,
                   expected_filename, existing_files, clean_query, yt_success,
                   latest_file, verify_result, primary_calls, fallback_calls,
                   all_nonzero, fb_before, renamed_from, fallback_expected>>
    /\ UNCHANGED textVars
    /\ UNCHANGED auxVars

----------------------------------------------------------------------------
(* The fallback: download_with_yt_dlp and the rename that follows it *)

\* lines 711-726: the label the Spotify client gives, or the defaults
TrackLabels == {Label(UnknownName, UnknownName), Label(KnownArtist, KnownTitle)}

\* how subprocess.run of a yt-dlp command, which is given no timeout, can
\* end: "hang" is a process that never returns
SearchOutcomes == {"results", "no_results", "exception", "hang"}
DownloadOutcomes == {"zero", "nonzero", "exception", "hang"}

\* lines 708-727 and 105-161: the label for the rename is resolved,
\* download_with_yt_dlp is called and runs its search
FallbackSearch ==
    /\ pc = "fallback"
    /\ \E q \in TrackLabels : clean_query' = q
    /\ fallback_calls' = fallback_calls + 1
    /\ fb_before' = DOMAIN dir
    /\ \E o \in SearchOutcomes :
          /\ pc' = CASE o = "results" -> "yt_download"
                     [] o = "hang" -> "blocked"
                     [] OTHER -> "fallback_done"
    /\ yt_success' = FALSE
    /\ UNCHANGED <<i, stats, fallback_downloads, batch_result, dir, song_info,
                   expected_filename, existing_files, attempt, result,
                   latest_file, success, verify_result, primary_calls,
                   all_nonzero, renamed_from, via, fallback_expected>>
    /\ UNCHANGED textVars
    /\ UNCHANGED auxVars

\* lines 177-178: the file max() found is above the threshold
FallbackAccepts(d, f) == AboveThreshold(d[f].size)

\* lines 163-191: the yt-dlp download and the check of its result: after a
\* zero exit the newest mp3 file of the whole directory decides
YtDownload ==
    /\ pc = "yt_download"
    /\ \E o \in DownloadOutcomes, w \in Writes(dir) :
          /\ o = "exception" => w = <<>>
          /\ dir' = Written(dir, w)
          /\ IF o = "hang"
             THEN /\ pc' = "blocked"
                  /\ UNCHANGED <<yt_success, latest_file>>
             ELSE /\ pc' = "fallback_done"
                  /\ IF o = "zero" /\ DOMAIN dir' # {}
                     THEN \E f \in Latest(dir', DOMAIN dir') :
                             /\ latest_file' = f
                             /\ yt_success' = FallbackAccepts(dir', f)
                     ELSE /\ latest_file' = None
                          /\ yt_success' = FALSE
    /\ UNCHANGED <<i, stats, fallback_downloads, batch_result, song_info,
                   expected_filename, existing_files, attempt, result,
                   clean_query, success, verify_result, primary_calls,
                   fallback_calls, all_nonzero, fb_before, renamed_from, via,
                   fallback_expected>>
    /\ UNCHANGED textVars
    /\ UNCHANGED auxVars

\* latest_file.rename(new_path): the file moves to the new path, replacing
\* a file that is there
Renamed(d, src, dst) ==
    [n \in (DOMAIN d \ {src}) \cup {dst} |-> IF n = dst THEN d[src] ELSE d[n]]

\* lines 736-740: the directory after the rename, which either is carried
\* out or raises an exception that is caught (a target that exists is
\* replaced on POSIX and raises on Windows)
RenameResults(d, src, dst) == {Renamed(d, src, dst), d}

\* lines 729-748: after download_with_yt_dlp returned; the directory has
\* not changed and is listed in the same order, so the max() of line 732
\* finds the file the max() of line 176 found
FallbackDone ==
    /\ pc = "fallback_done"
    /\ IF yt_success /\ DOMAIN dir # {}
       THEN \E newest \in Latest(dir, DOMAIN dir) :
               /\ newest = latest_file
               /\ dir' \in RenameResults(dir, newest, SafeName(clean_query))
               /\ renamed_from' = newest
               /\ fallback_downloads' = Append(fallback_downloads, clean_query)
               /\ fallback_expected' = Append(fallback_expected, clean_query)
               /\ success' = TRUE
               /\ via' = "fallback"
       ELSE /\ success' = FALSE
            /\ UNCHANGED <<dir, renamed_from, fallback_downloads,
                           fallback_expected, via>>
    /\ pc' = "record"
    /\ UNCHANGED <<i, stats, batch_result, song_info, expected_filename,
                   existing_files, attempt, result, clean_query, yt_success,
                   latest_file, verify_result, primary_calls, fallback_calls,
                   all_nonzero, fb_before>>
    /\ UNCHANGED textVars
    /\ UNCHANGED auxVars

----------------------------------------------------------------------------
(* download_multiple_songs *)

\* the branches of lines 967-973 taken on the opposite outcome
RecordedSwapped(st, ok, url) ==
    IF ~ok
    THEN [st EXCEPT !.success = @ + 1]
    ELSE [st EXCEPT !.failed = @ + 1, !.failed_urls = Append(@, url)]

\* lines 967-973 without line 973, the append to the failed-URL list
RecordedNoUrl(st, ok, url) ==
    IF ok
    THEN [st EXCEPT !.success = @ + 1]
    ELSE [st EXCEPT !.failed = @ + 1]

\* lines 967-973: the stats after an item that returned ok
Recorded(st, ok, url) ==
    IF ok
    THEN [st EXCEPT !.success = @ + 1]
    ELSE [st EXCEPT !.failed = @ + 1, !.failed_urls = Append(@, url)]

\* lines 967-973: the outcome of the item is counted and the loop goes on;
\* the locals of the call that returned are gone
RecordOutcome ==
    /\ pc = "record"
    /\ stats' = Recorded(stats, success, urls[i])
    /\ i' = i + 1
    /\ pc' = "loop"
    /\ song_info' = None
    /\ expected_filename' = None
    /\ existing_files' = {}
    /\ attempt' = 0
    /\ result' = "none"
    /\ clean_query' = None
    /\ yt_success' = FALSE
    /\ latest_file' = None
    /\ success' = FALSE
    /\ primary_calls' = 0
    /\ fallback_calls' = 0
    /\ all_nonzero' = TRUE
    /\ fb_before' = {}
    /\ renamed_from' = None
    /\ via' = "none"
    /\ UNCHANGED <<fallback_downloads, batch_result, dir, verify_result,
                   fallback_expected>>
    /\ UNCHANGED textVars
    /\ UNCHANGED auxVars

\* lines 998-1005 returning True as soon as one item succeeded
BatchResultAnySuccess(d, st) ==
    IF DOMAIN d = {} THEN "False"
    ELSE IF st.success > 0 THEN "True" ELSE "False"

\* lines 998-1005: the value download_multiple_songs returns
BatchResult(d, st) ==
    IF DOMAIN d = {} THEN "False"
    ELSE IF st.failed = 0 THEN "True" ELSE "False"

\* lines 975-1005: the loop is over, the summary is printed
FinishBatch ==
    /\ pc = "loop"
    /\ i > Len(urls)
    /\ batch_result' = BatchResult(dir, stats)
    /\ pc' = "done"
    /\ UNCHANGED <<i, stats, fallback_downloads, dir, song_info,
                   expected_filename, existing_files, attempt, result,
                   clean_query, yt_success, latest_file, success,
                   verify_result, primary_calls, fallback_calls, all_nonzero,
                   fb_before, renamed_from, via, fallback_expected>>
    /\ UNCHANGED textVars
    /\ UNCHANGED auxVars

Next ==
    \/ StartItem
    \/ PrimaryInvoke
    \/ PrimaryCheck
    \/ FallbackSearch
    \/ YtDownload
    \/ FallbackDone
    \/ RecordOutcome
    \/ FinishBatch

Spec == Init /\ [][Next]_vars

\* the program is one thread that always takes its next step
FairSpec == Spec /\ WF_vars(Next)

----------------------------------------------------------------------------
(* Properties of the batch pipeline *)

\* C1: when every invocation of the primary tool returned a non-zero exit
\* code, the tool was invoked exactly 3 times for the item before
\* download_with_yt_dlp was called, and download_with_yt_dlp was called
\* exactly once and not before the third attempt had ended.
C1_RetryBudgetThenFallback ==
    /\ (all_nonzero /\ pc \in {"yt_download", "fallback_done", "blocked", "record"})
          => (primary_calls = 3 /\ fallback_calls = 1)
    /\ (all_nonzero /\ fallback_calls >= 1) => (primary_calls = 3 /\ attempt = 3)
    /\ (all_nonzero /\ pc = "fallback") => (primary_calls = 3 /\ fallback_calls = 0)

C1_Witness ==
    pc = "record" /\ all_nonzero /\ primary_calls = 3 /\ fallback_calls = 1

\* C2: download_with_yt_dlp returns True only when the directory holds a
\* file above the threshold under a path it did not hold when
\* download_with_yt_dlp was called.
C2_FallbackSuccessNeedsNewFile ==
    (pc = "fallback_done" /\ yt_success)
        => \E f \in DOMAIN dir \ fb_before : AboveThreshold(dir[f].size)

\* C3: when the batch is over, the fallback list holds, in input order, one
\* label for every item that succeeded through the fallback.
C3_FallbackListComplete ==
    pc = "done" => fallback_downloads = fallback_expected

\* C4: every primary attempt starts with a snapshot that equals the content
\* of the directory at that moment, so that a file left by an earlier
\* attempt is not in the new files of a later one.
C4_SnapshotPerAttempt ==
    pc = "primary" => existing_files = DOMAIN dir

\* C5: a primary attempt that exited with code 0 and found exactly one new
\* file, at or below the threshold, deletes that file before the next
\* attempt starts.
C5_UndersizedDeleted ==
    [][(/\ pc = "primary_check"
        /\ result = "zero"
        /\ Cardinality(NewFiles(dir, existing_files)) = 1
        /\ \A f \in NewFiles(dir, existing_files) : ~AboveThreshold(dir[f].size))
       => \A f \in NewFiles(dir, existing_files) : f \notin DOMAIN dir']_vars

\* C6: when the batch is over, the directory holds at least as many mp3
\* files as items were counted as succeeded.
C6_FilePerSucceededItem ==
    pc = "done" => Cardinality(DOMAIN dir) >= stats.success

\* C7: the file handed to rename after a successful fallback was not in the
\* directory when download_with_yt_dlp was called.
C7_RenamedFileIsNew ==
    renamed_from # None => renamed_from \notin fb_before

\* C9: no invocation of an external tool blocks for ever: until the batch
\* is over the program always has a next step.
C9_EveryInvocationReturns ==
    pc = "done" \/ ENABLED Next

\* C10: download_with_yt_dlp is called for an item only after all
\* max_retries primary attempts ended without a success, never after a
\* primary success, and an item is counted as failed only after
\* download_with_yt_dlp was called for it and returned False.
C10_FallbackAfterBudgetFailedAfterFallback ==
    /\ [](fallback_calls >= 1 => (attempt = max_retries /\ primary_calls = max_retries))
    /\ [](via = "primary" => fallback_calls = 0)
    /\ [][stats'.failed > stats.failed
            => (fallback_calls = 1 /\ ~yt_success /\ via = "none")]_vars

C10_Witness ==
    pc = "done" /\ stats.failed >= 1 /\ stats.success >= 1

\* C11: a primary attempt that exited with code 0 and left exactly one new
\* file, above the threshold, makes download_song_with_detailed_errors
\* return True at once: no further primary attempt, no call of
\* download_with_yt_dlp, and the directory is not touched again for the item.
C11_PrimarySuccessReturnsAtOnce ==
    /\ [][(/\ pc = "primary_check"
           /\ result = "zero"
           /\ Cardinality(NewFiles(dir, existing_files)) = 1
           /\ \A f \in NewFiles(dir, existing_files) : AboveThreshold(dir[f].size))
          => (/\ pc' = "record"
              /\ success'
              /\ via' = "primary"
              /\ dir' = dir
              /\ primary_calls' = primary_calls
              /\ fallback_calls' = 0)]_vars
    /\ [][via = "primary"
            => (/\ pc = "record"
                /\ pc' = "loop"
                /\ dir' = dir
                /\ renamed_from = None
                /\ fallback_calls = 0
                /\ stats'.success = stats.success + 1)]_vars

C11_Witness ==
    /\ pc = "record"
    /\ via = "primary"
    /\ success
    /\ primary_calls = 2
    /\ existing_files # {}

\* C12: a primary attempt that exited with code 0 and left no new file or
\* more than one new file is no success, whatever the sizes are: the
\* attempt is counted, and the next attempt or, after the last one, the
\* fallback follows.
C12_AmbiguousDeltaIsNoSuccess ==
    [][(/\ pc = "primary_check"
        /\ result = "zero"
        /\ Cardinality(NewFiles(dir, existing_files)) # 1)
       => (/\ ~success'
           /\ via' = "none"
           /\ attempt' = attempt + 1
           /\ pc' = (IF attempt' < 3 THEN "primary" ELSE "fallback")
           /\ dir' = dir)]_vars

C12_Witness ==
    /\ pc = "primary_check"
    /\ result = "zero"
    /\ Cardinality(NewFiles(dir, existing_files)) = 2
    /\ \A f \in NewFiles(dir, existing_files) : AboveThreshold(dir[f].size)

\* C14: all along the loop of download_multiple_songs, success + failed is
\* the number of items already processed, failed_urls has as many entries as
\* the failed counter and holds the failed items, each appended when it
\* failed and so in input order; when the loop is over the two counters add
\* up to the total.
C14_CountersAndFailedList ==
    /\ [](stats.success + stats.failed = i - 1)
    /\ [](Len(stats.failed_urls) = stats.failed)
    /\ [](\A j, k \in 1..Len(stats.failed_urls) :
            j < k => \E a, b \in 1..(i - 1) :
                        /\ a < b
                        /\ urls[a] = stats.failed_urls[j]
                        /\ urls[b] = stats.failed_urls[k])
    /\ [][stats' # stats
            => stats'.failed_urls =
                 (IF success THEN stats.failed_urls
                  ELSE Append(stats.failed_urls, urls[i]))]_vars
    /\ [](pc = "done"
            => (stats.total = Len(urls)
                /\ stats.success + stats.failed = stats.total))

C14_Witness ==
    /\ pc = "loop"
    /\ i = 3
    /\ stats.success = 1
    /\ stats.failed_urls = <<urls[2]>>

\* C15: the references are processed one at a time in input order, the
\* pipeline of a reference starts when the outcomes of all earlier ones are
\* recorded, and the outcome of every reference of the list is eventually
\* recorded.
C15_EveryItemEventuallyRecorded ==
    /\ [][i' # i => (pc = "record" /\ i' = i + 1)]_vars
    /\ [][(pc = "loop" /\ pc' = "primary")
            => stats.success + stats.failed = i - 1]_vars
    /\ \A k \in 1..Len(urls) : <>(stats.success + stats.failed >= k)

\* C16: download_multiple_songs returns True exactly when no item failed and
\* the output directory holds an mp3 file after the batch; with no mp3 file
\* in the directory it returns False.
C16_BatchVerdict ==
    pc = "done"
      => /\ batch_result = "True" <=> (stats.failed = 0 /\ DOMAIN dir # {})
         /\ DOMAIN dir = {} => batch_result = "False"

C16_Witness ==
    /\ pc = "done"
    /\ batch_result = "True"
    /\ stats.success = Len(urls)

\* C24: the fallback renames the file it produced and records a label only
\* when an artist and a title were resolved for the track; with nothing
\* resolved, neither by the probe nor by the Spotify client, a successful
\* fallback renames nothing and records nothing.
C24_RenameOnlyWhenResolved ==
    (/\ via = "fallback"
     /\ song_info = None
     /\ clean_query = Label(UnknownName, UnknownName))
      => (renamed_from = None /\ fallback_downloads = <<>>)

\* C27: a success of the primary path rests on a file that was not in the
\* directory when the item began: the snapshot is taken when the item
\* starts, is kept through the attempts, and the one file accepted is
\* outside it.
C27_AcceptedFileIsNewForItem ==
    /\ [][(pc = "loop" /\ pc' = "primary") => existing_files' = DOMAIN dir]_vars
    /\ [][(pc \in {"primary", "primary_check"} /\ pc' # "record")
            => existing_files' = existing_files]_vars
    /\ [][(pc = "primary_check" /\ via' = "primary")
            => (/\ existing_files' = existing_files
                /\ Cardinality(DOMAIN dir \ existing_files) = 1
                /\ \A f \in DOMAIN dir \ existing_files : AboveThreshold(dir[f].size))]_vars

C27_Witness ==
    /\ pc = "record"
    /\ via = "primary"
    /\ i = 2
    /\ \E f \in existing_files : AboveThreshold(dir[f].size)

\* C28: whatever the tools do, one call of
\* download_song_with_detailed_errors invokes the primary tool at least
\* once and at most 3 times and calls download_with_yt_dlp at most once.
C28_InvocationBounds ==
    /\ primary_calls <= 3
    /\ fallback_calls <= 1
    /\ pc \in {"primary_check", "fallback", "yt_download", "fallback_done",
               "blocked", "record"} => primary_calls >= 1

C28_Witness ==
    /\ pc = "record"
    /\ primary_calls = 3
    /\ fallback_calls = 1
    /\ ~all_nonzero
    /\ ~success

----------------------------------------------------------------------------
(* The primary attempts of one item while another party writes into the    *)
(* output directory.                                                       *)

\* most files the other party places
MaxForeign == 1

\* between the snapshot of line 671 and the listing of line 688 a party
\* other than the invoked tool places an mp3 file in the directory
ForeignWrite ==
    /\ pc \in {"primary", "primary_check"}
    /\ Cardinality(foreign) < MaxForeign
    /\ \E n \in Names \ DOMAIN dir, r \in FileRec :
          /\ dir' = Written(dir, n :> r)
          /\ foreign' = foreign \cup {n}
    /\ UNCHANGED <<pc, i, stats, fallback_downloads, batch_result, song_info,
                   expected_filename, existing_files, attempt, result,
                   clean_query, yt_success, latest_file, success,
                   verify_result, primary_calls, fallback_calls, all_nonzero,
                   fb_before, renamed_from, via, fallback_expected, twin>>
    /\ UNCHANGED folderVars
    /\ UNCHANGED playlistVars
    /\ UNCHANGED error_summary
    /\ UNCHANGED textVars

NextShared == StartItem \/ PrimaryInvoke \/ PrimaryCheck \/ ForeignWrite

SpecShared == Init /\ [][NextShared]_vars

\* C26: a file that a party other than the download tool placed in the
\* directory between the two snapshots of a primary attempt is not what a
\* success of the primary path rests on.
C26_ForeignFileNotAccepted ==
    via = "primary" => NewFiles(dir, existing_files) \cap foreign = {}

----------------------------------------------------------------------------
(* A pair of calls of download_song_with_detailed_errors on the same       *)
(* directory and with the same behaviour of the download tools: the first  *)
(* call with whatever the probes return, the second with None from both.   *)
(* The calls take their steps in turn; twin holds the call that waits.     *)

\* the state of the call that runs, to be kept while the other one runs;
\* from is the position the other call is at
Saved(turn, from) ==
    [turn |-> turn, from |-> from,
     pc |-> pc,
     dir |-> dir,
     song_info |-> song_info,
     expected_filename |-> expected_filename,
     existing_files |-> existing_files,
     attempt |-> attempt,
     result |-> result,
     clean_query |-> clean_query,
     yt_success |-> yt_success,
     latest_file |-> latest_file,
     success |-> success,
     primary_calls |-> primary_calls,
     fallback_calls |-> fallback_calls,
     all_nonzero |-> all_nonzero,
     fb_before |-> fb_before,
     renamed_from |-> renamed_from,
     via |-> via,
     fallback_downloads |-> fallback_downloads,
     fallback_expected |-> fallback_expected]

\* the call kept in r runs again
Load(r) ==
    /\ pc' = r.pc
    /\ dir' = r.dir
    /\ song_info' = r.song_info
    /\ expected_filename' = r.expected_filename
    /\ existing_files' = r.existing_files
    /\ attempt' = r.attempt
    /\ result' = r.result
    /\ clean_query' = r.clean_query
    /\ yt_success' = r.yt_success
    /\ latest_file' = r.latest_file
    /\ success' = r.success
    /\ primary_calls' = r.primary_calls
    /\ fallback_calls' = r.fallback_calls
    /\ all_nonzero' = r.all_nonzero
    /\ fb_before' = r.fb_before
    /\ renamed_from' = r.renamed_from
    /\ via' = r.via
    /\ fallback_downloads' = r.fallback_downloads
    /\ fallback_expected' = r.fallback_expected

InitTwin ==
    /\ pc = "loop"
    /\ dir = <<>>
    /\ expected_filename = None
    /\ existing_files = {}
    /\ Idle
    /\ NoText
    /\ foreign = {}
    /\ NoFolder
    /\ NoPlaylist
    /\ error_summary = <<>>
    /\ twin = Saved("first", "loop")

\* one step of a call
ItemStep ==
    \/ StartItem
    \/ PrimaryInvoke
    \/ PrimaryCheck
    \/ FallbackSearch
    \/ YtDownload
    \/ FallbackDone

\* the first call takes a step
FirstStep ==
    /\ twin.turn = "first"
    /\ pc = twin.pc
    /\ ItemStep

\* the first call waits, the second one runs
HandOver ==
    /\ twin.turn = "first"
    /\ pc # twin.pc
    /\ twin' = Saved("second", twin.pc)
    /\ Load(twin)
    /\ UNCHANGED <<i, stats, batch_result, verify_result, foreign>>
    /\ UNCHANGED folderVars
    /\ UNCHANGED playlistVars
    /\ UNCHANGED error_summary
    /\ UNCHANGED textVars

\* the second call takes the same step: its probes return None, and the
\* tools and the file system do for it what they did for the first call
SecondStep ==
    /\ twin.turn = "second"
    /\ pc = twin.from
    /\ \/ StartItem /\ song_info' = None /\ expected_filename' = None
       \/ PrimaryInvoke /\ result' = twin.result /\ dir' = twin.dir
       \/ PrimaryCheck
       \/ FallbackSearch /\ clean_query' = twin.clean_query /\ pc' = twin.pc
       \/ YtDownload /\ dir' = twin.dir /\ pc' = twin.pc
                     /\ latest_file' = twin.latest_file
       \/ FallbackDone /\ dir' = twin.dir

\* the second call waits, the first one runs
HandBack ==
    /\ twin.turn = "second"
    /\ pc # twin.from
    /\ twin' = Saved("first", pc)
    /\ Load(twin)
    /\ UNCHANGED <<i, stats, batch_result, verify_result, foreign>>
    /\ UNCHANGED folderVars
    /\ UNCHANGED playlistVars
    /\ UNCHANGED error_summary
    /\ UNCHANGED textVars

NextTwin == FirstStep \/ HandOver \/ SecondStep \/ HandBack

SpecTwin == InitTwin /\ [][NextTwin]_vars

\* C23: what the probes returned does not decide the download: with the
\* same behaviour of the tools on the same directory, the call whose probes
\* returned None can take every step the other call took, and after each
\* step both calls are at the same place, have invoked the primary tool and
\* the fallback as often, and have the same result and the same directory.
C23_ProbesDoNotDecide ==
    /\ (twin.turn = "second" /\ pc = twin.from) => ENABLED SecondStep
    /\ (twin.turn = "second" /\ pc # twin.from)
         => /\ pc = twin.pc
            /\ primary_calls = twin.primary_calls
            /\ fallback_calls = twin.fallback_calls
            /\ success = twin.success
            /\ via = twin.via
            /\ dir = twin.dir

C23_Witness ==
    /\ twin.turn = "second"
    /\ pc = "record"
    /\ twin.pc = "record"
    /\ success
    /\ via = "primary"
    /\ song_info = None
    /\ expected_filename = None
    /\ twin.song_info # None
    /\ twin.expected_filename # None
    /\ twin.expected_filename \notin DOMAIN dir

----------------------------------------------------------------------------
(* The two metadata probes of lines 658 and 666, each on a run of the tool *)

InitProbe ==
    /\ pc = "probe_info"
    /\ dir = <<>>
    /\ expected_filename = None
    /\ existing_files = {}
    /\ Idle
    /\ NoText
    /\ NoAux

\* line 658: song_info = get_song_info_for_display(url, spotdl_args)
ProbeInfoCall ==
    /\ pc = "probe_info"
    /\ \E run \in ProbeRuns :
          /\ result' = run
          /\ IF SongInfoForDisplay(run).raised # "no"
             THEN pc' = "raised" /\ song_info' = song_info
             ELSE pc' = "probe_name" /\ song_info' = SongInfoForDisplay(run).value
    /\ UNCHANGED <<i, stats, fallback_downloads, batch_result, dir,
                   expected_filename, existing_files, attempt, clean_query,
                   yt_success, latest_file, success, verify_result,
                   primary_calls, fallback_calls, all_nonzero, fb_before,
                   renamed_from, via, fallback_expected>>
    /\ UNCHANGED textVars
    /\ UNCHANGED auxVars

\* line 666: expected_filename = get_expected_filename(url, output_path, spotdl_args)
ProbeNameCall ==
    /\ pc = "probe_name"
    /\ \E run \in ProbeRuns :
          /\ result' = run
          /\ IF ExpectedFilename(run).raised # "no"
             THEN pc' = "raised" /\ expected_filename' = expected_filename
             ELSE pc' = "probed" /\ expected_filename' = ExpectedFilename(run).value
    /\ UNCHANGED <<i, stats, fallback_downloads, batch_result, dir, song_info,
                   existing_files, attempt, clean_query, yt_success,
                   latest_file, success, verify_result, primary_calls,
                   fallback_calls, all_nonzero, fb_before, renamed_from, via,
                   fallback_expected>>
    /\ UNCHANGED textVars
    /\ UNCHANGED auxVars

NextProbe == ProbeInfoCall \/ ProbeNameCall

SpecProbe == InitProbe /\ [][NextProbe]_vars

\* a run that gave no output the fields can be read from: a timeout, a
\* failed launch, a non-zero exit, no output, no JSON, or JSON that is no
\* object or whose 'artists' is no list of named artists
FailedRun(run) ==
    \/ run.end # "zero"
    \/ run.stdout.kind # "object"
    \/ run.stdout.artists \in {"unnamed", "text"}

\* C22: the probes never raise to the caller; after a timeout, a non-zero
\* exit, empty output, malformed JSON or JSON of an unexpected shape they
\* return None, and they return a value only after a zero exit with a JSON
\* object in the output.
C22_ProbesFailSoft ==
    /\ pc # "raised"
    /\ pc = "probe_name"
         => /\ FailedRun(result) => song_info = None
            /\ song_info # None => (result.end = "zero" /\ result.stdout.kind = "object")
    /\ pc = "probed"
         => /\ FailedRun(result) => expected_filename = None
            /\ expected_filename # None
                 => (result.end = "zero" /\ result.stdout.kind = "object")

C22_Witness ==
    /\ pc = "probed"
    /\ result.end = "zero"
    /\ result.stdout.kind = "object"
    /\ result.stdout.artists = "unnamed"
    /\ expected_filename = None
    /\ song_info = Label(UnknownArtist, UnknownTrack)

----------------------------------------------------------------------------
(* verify_download_completion, applied to every directory, snapshot and   *)
(* expected file name                                                      *)

\* every content the output directory can have
Directories == UNION {[S -> FileRec] : S \in SUBSET Names}

Verdict(ok) == IF ok THEN "True" ELSE "False"

\* lines 364-413 without the test of line 380: a file of the expected name
\* counts whether it is new or not
VerifyDownloadCompletionAnyAge(d, expected, existing) ==
    LET current_files == DOMAIN d
        new_files == current_files \ existing
    IN  IF current_files = {} THEN {"False"}
        ELSE IF expected # None
        THEN {Verdict(expected \in current_files /\ AboveThreshold(d[expected].size))}
        ELSE IF new_files # {}
        THEN {Verdict(AboveThreshold(d[f].size)) : f \in Latest(d, new_files)}
        ELSE {Verdict(AboveThreshold(d[f].size)) : f \in Latest(d, current_files)}

\* lines 391-401 accepting as soon as any new file is above the threshold
VerifyDownloadCompletionAnyNew(d, expected, existing) ==
    LET current_files == DOMAIN d
        new_files == current_files \ existing
    IN  IF current_files = {} THEN {"False"}
        ELSE IF expected # None
        THEN IF expected \in current_files /\ AboveThreshold(d[expected].size)
             THEN {Verdict(expected \in new_files)}
             ELSE {"False"}
        ELSE IF new_files # {}
        THEN {Verdict(\E f \in new_files : AboveThreshold(d[f].size))}
        ELSE {Verdict(AboveThreshold(d[f].size)) : f \in Latest(d, current_files)}

\* lines 364-413: the values verify_download_completion can return for the
\* directory d, the expected name and the before-snapshot existing (max
\* may return any of the files that share the greatest mtime)
VerifyDownloadCompletion(d, expected, existing) ==
    LET current_files == DOMAIN d
        new_files == current_files \ existing
    IN  IF current_files = {} THEN {"False"}
        ELSE IF expected # None
        THEN IF expected \in current_files /\ AboveThreshold(d[expected].size)
             THEN {Verdict(expected \in new_files)}
             ELSE {"False"}
        ELSE IF new_files # {}
        THEN {Verdict(AboveThreshold(d[f].size)) : f \in Latest(d, new_files)}
        ELSE {Verdict(AboveThreshold(d[f].size)) : f \in Latest(d, current_files)}

InitVerify ==
    /\ pc = "verify"
    /\ dir \in Directories
    /\ expected_filename \in Names \cup {None}
    /\ existing_files \in SUBSET Names
    /\ Idle
    /\ NoText
    /\ NoAux

\* lines 354-413 with an unlink of the new files that are too small
VerifyCallDeleting ==
    /\ pc = "verify"
    /\ \E given \in BOOLEAN :
          existing_files' = IF given THEN existing_files ELSE DOMAIN dir
    /\ verify_result' \in VerifyDownloadCompletion(dir, expected_filename, existing_files')
    /\ dir' = [f \in {g \in DOMAIN dir : g \in existing_files' \/ AboveThreshold(dir[g].size)}
                |-> dir[f]]
    /\ pc' = "verified"
    /\ UNCHANGED <<i, stats, fallback_downloads, batch_result, song_info,
                   expected_filename, attempt, result, clean_query,
                   yt_success, latest_file, success, primary_calls,
                   fallback_calls, all_nonzero, fb_before, renamed_from, via,
                   fallback_expected>>
    /\ UNCHANGED textVars
    /\ UNCHANGED auxVars

\* lines 354-413: one call; without the existing_files argument the
\* snapshot is taken inside the call (lines 360-361)
VerifyCall ==
    /\ pc = "verify"
    /\ \E given \in BOOLEAN :
          existing_files' = IF given THEN existing_files ELSE DOMAIN dir
    /\ verify_result' \in VerifyDownloadCompletion(dir, expected_filename, existing_files')
    /\ pc' = "verified"
    /\ UNCHANGED <<i, stats, fallback_downloads, batch_result, dir, song_info,
                   expected_filename, attempt, result, clean_query,
                   yt_success, latest_file, success, primary_calls,
                   fallback_calls, all_nonzero, fb_before, renamed_from, via,
                   fallback_expected>>
    /\ UNCHANGED textVars
    /\ UNCHANGED auxVars

NextVerify == VerifyCall

SpecVerify == InitVerify /\ [][NextVerify]_vars

----------------------------------------------------------------------------
(* Properties of verify_download_completion *)

\* C8: verify_download_completion returns False whenever the set of new
\* files is empty, with and without an expected file name.
C8_EmptyDeltaIsFailure ==
    (pc = "verified" /\ NewFiles(dir, existing_files) = {})
        => verify_result = "False"

\* C17: with an expected filename, verify_download_completion returns True
\* exactly when a file of that very name is in the directory, was not in the
\* before-snapshot and is above the threshold; a file of that name that was
\* there before or is too small gives False.
C17_ExpectedNameVerdict ==
    (pc = "verified" /\ expected_filename # None)
      => (verify_result = "True"
            <=> (/\ expected_filename \in DOMAIN dir
                 /\ expected_filename \notin existing_files
                 /\ AboveThreshold(dir[expected_filename].size)))

C17_Witness ==
    /\ pc = "verified"
    /\ expected_filename # None
    /\ verify_result = "True"
    /\ Cardinality(DOMAIN dir) = 3
    /\ existing_files # {}

\* C25: verify_download_completion changes nothing in the directory: the
\* files and their sizes are the same after every call.
C25_VerifyLeavesDirectory ==
    [][pc = "verify" => dir' = dir]_vars

C25_Witness ==
    /\ pc = "verified"
    /\ verify_result = "False"
    /\ \E f \in DOMAIN dir \ existing_files : ~AboveThreshold(dir[f].size)

\* C29: with no expected filename and new files in the directory, the most
\* recently modified new file alone decides: True exactly when it is above
\* the threshold, and False when every new file is too small.
C29_LatestNewFileDecides ==
    (pc = "verified" /\ expected_filename = None /\ DOMAIN dir \ existing_files # {})
      => /\ \E f \in Latest(dir, DOMAIN dir \ existing_files) :
               verify_result = "True" <=> AboveThreshold(dir[f].size)
         /\ (\A f \in DOMAIN dir \ existing_files : ~AboveThreshold(dir[f].size))
               => verify_result = "False"

C29_Witness ==
    /\ pc = "verified"
    /\ expected_filename = None
    /\ verify_result = "False"
    /\ \E f, g \in DOMAIN dir \ existing_files :
          /\ AboveThreshold(dir[f].size)
          /\ ~AboveThreshold(dir[g].size)
          /\ dir[f].mtime < dir[g].mtime

----------------------------------------------------------------------------
(* The three size tests, applied to a directory with exactly one new file  *)
(* whose size lies around the threshold.                                   *)

\* sizes in bytes below, at and above 100 KiB and 0.1 MiB
ThresholdSizes == {10240, 102400, 102401, 104857, 104858, 5242880}

ThresholdRec == [size : ThresholdSizes, mtime : Mtimes]

\* the file the directory holds and the before-snapshot does not
NewFile == CHOOSE f \in NewFiles(dir, existing_files) : TRUE

InitAccept ==
    /\ pc = "accept"
    /\ \E f \in Names, S \in SUBSET Names :
          /\ f \notin S
          /\ dir \in [S \cup {f} -> ThresholdRec]
          /\ existing_files = S
          /\ expected_filename \in {None, f}
    /\ Idle
    /\ NoText
    /\ NoAux

\* the test of lines 690-695, the test of lines 176-182 and the call of
\* verify_download_completion, each on the same directory
AcceptCall ==
    /\ pc = "accept"
    /\ success' = PrimaryAccepts(dir, existing_files)
    /\ \E f \in Latest(dir, DOMAIN dir) :
          /\ latest_file' = f
          /\ yt_success' = FallbackAccepts(dir, f)
    /\ verify_result' \in VerifyDownloadCompletion(dir, expected_filename, existing_files)
    /\ pc' = "accepted"
    /\ UNCHANGED <<i, stats, fallback_downloads, batch_result, dir, song_info,
                   expected_filename, existing_files, attempt, result,
                   clean_query, primary_calls, fallback_calls, all_nonzero,
                   fb_before, renamed_from, via, fallback_expected>>
    /\ UNCHANGED textVars
    /\ UNCHANGED auxVars

NextAccept == AcceptCall

SpecAccept == InitAccept /\ [][NextAccept]_vars

\* C13: the threshold is 100 KiB: the single new file is accepted by the
\* primary test, by the fallback test (when it is the newest file) and by
\* verify_download_completion exactly when its size is greater than 102400
\* bytes.
C13_ThresholdIs100KiB ==
    pc = "accepted"
      => /\ success <=> dir[NewFile].size > 102400
         /\ latest_file = NewFile => (yt_success <=> dir[NewFile].size > 102400)
         /\ verify_result = "True" <=> dir[NewFile].size > 102400

----------------------------------------------------------------------------
(* normalize_spotify_url and is_valid_spotify_track_url.  A line is a      *)
(* sequence of chunks: the scheme and host, a locale segment, the track    *)
(* segment, single characters.                                             *)

\* longest line drawn
MaxLineLen == 4

Host == "https://open.spotify.com/"
Locale == "intl-es/"
UpperLocale == "intl-ES/"
TrackSeg == "track/"
Playlist == "playlist/"
Space == " "
Hash == "#"
Query == "?"

\* [a-zA-Z0-9]
IdChars == {"a", "7"}

Chunks == {Host, Locale, UpperLocale, TrackSeg, Query, Space} \cup IdChars

Lines == UNION {[1..n -> Chunks] : n \in 0..MaxLineLen}

RECURSIVE LStrip(_)
LStrip(s) == IF s # <<>> /\ Head(s) = Space THEN LStrip(Tail(s)) ELSE s

RECURSIVE RStrip(_)
RStrip(s) ==
    IF s # <<>> /\ s[Len(s)] = Space THEN RStrip(SubSeq(s, 1, Len(s) - 1)) ELSE s

\* str.strip()
Strip(s) == RStrip(LStrip(s))

\* str.startswith(prefix)
StartsWith(s, prefix) ==
    Len(s) >= Len(prefix) /\ SubSeq(s, 1, Len(prefix)) = prefix

\* the pattern of line 268 without its optional group
LocaleSegmentNever(c) == c \notin Chunks

\* intl-[a-z]{2}/
LocaleSegment(c) == c = Locale

\* line 268: where group 1 starts when the pattern matches at position p of
\* u, 0 when it does not match there
IdStart(u, p) ==
    IF u[p] # Host THEN 0
    ELSE IF p + 2 <= Len(u) /\ u[p + 1] = TrackSeg /\ u[p + 2] \in IdChars
    THEN p + 2
    ELSE IF /\ p + 3 <= Len(u)
            /\ LocaleSegment(u[p + 1])
            /\ u[p + 2] = TrackSeg
            /\ u[p + 3] \in IdChars
    THEN p + 3
    ELSE 0

\* line 268: [a-zA-Z0-9]+ is greedy; where the run that starts at q ends
RECURSIVE IdEnd(_, _)
IdEnd(u, q) ==
    IF q < Len(u) /\ u[q + 1] \in IdChars THEN IdEnd(u, q + 1) ELSE q

\* line 269: re.search returns the leftmost match; 0 for no match
Search(u) ==
    LET ps == {p \in 1..Len(u) : IdStart(u, p) # 0}
    IN  IF ps = {} THEN 0 ELSE CHOOSE p \in ps : \A q \in ps : p <= q

\* 'https://open.spotify.com/track/'
TrackPrefix == <<Host, TrackSeg>>

\* lines 266-273 with group 1 taken from its second character on
NormalizeSpotifyUrlShortId(u) ==
    LET match == Search(u)
    IN  IF match # 0
        THEN TrackPrefix \o SubSeq(u, IdStart(u, match) + 1, IdEnd(u, IdStart(u, match)))
        ELSE u

\* lines 266-273
NormalizeSpotifyUrl(u) ==
    LET match == Search(u)
    IN  IF match # 0
        THEN TrackPrefix \o SubSeq(u, IdStart(u, match), IdEnd(u, IdStart(u, match)))
        ELSE u

\* lines 275-278
IsValidSpotifyTrackUrl(u) ==
    StartsWith(NormalizeSpotifyUrl(Strip(u)), TrackPrefix)

InitUrl ==
    /\ pc = "url"
    /\ dir = <<>>
    /\ expected_filename = None
    /\ existing_files = {}
    /\ Idle
    /\ line \in Lines
    /\ valid = FALSE
    /\ normalized_url = <<>>
    /\ lines = <<>>
    /\ read_result = <<>>
    /\ NoAux

\* lines 266-273: one call of normalize_spotify_url
NormalizeCall ==
    /\ pc = "url"
    /\ normalized_url' = NormalizeSpotifyUrl(line)
    /\ pc' = "normalized"
    /\ UNCHANGED <<i, stats, fallback_downloads, batch_result, dir, song_info,
                   expected_filename, existing_files, attempt, result,
                   clean_query, yt_success, latest_file, success,
                   verify_result, primary_calls, fallback_calls, all_nonzero,
                   fb_before, renamed_from, via, fallback_expected>>
    /\ UNCHANGED <<line, valid, lines, read_result>>
    /\ UNCHANGED auxVars

\* lines 275-278: one call of is_valid_spotify_track_url; normalized_url is
\* its local variable, and what line 897 computes for an accepted line
IsValidCall ==
    /\ pc = "url"
    /\ normalized_url' = NormalizeSpotifyUrl(Strip(line))
    /\ valid' = IsValidSpotifyTrackUrl(line)
    /\ pc' = "validated"
    /\ UNCHANGED <<i, stats, fallback_downloads, batch_result, dir, song_info,
                   expected_filename, existing_files, attempt, result,
                   clean_query, yt_success, latest_file, success,
                   verify_result, primary_calls, fallback_calls, all_nonzero,
                   fb_before, renamed_from, via, fallback_expected>>
    /\ UNCHANGED <<line, lines, read_result>>
    /\ UNCHANGED auxVars

NextUrl == NormalizeCall \/ IsValidCall

SpecUrl == InitUrl /\ [][NextUrl]_vars

\* the TrackReference form: the canonical prefix and a non-empty
\* alphanumeric ID, nothing else
IsTrackReference(u) ==
    /\ Len(u) >= 3
    /\ StartsWith(u, TrackPrefix)
    /\ \A k \in 3..Len(u) : u[k] \in IdChars

\* C18: a line is_valid_spotify_track_url accepts gives, normalized as
\* read_songs_from_file returns it, a reference of the TrackReference form:
\* the canonical prefix followed by a non-empty alphanumeric ID.
C18_AcceptedIsTrackReference ==
    (pc = "validated" /\ valid) => IsTrackReference(normalized_url)

\* C20: normalize_spotify_url is idempotent on every string.
C20_NormalizeIdempotent ==
    pc = "normalized" => NormalizeSpotifyUrl(normalized_url) = normalized_url

C20_Witness ==
    /\ pc = "normalized"
    /\ normalized_url # line
    /\ line[2] = Locale
    /\ Len(normalized_url) = 3

\* a track url with a segment "intl-" and a two-letter code, in either
\* case, between the host and the track segment
IsLocaleTrackUrl(u) ==
    /\ Len(u) >= 4
    /\ u[1] = Host
    /\ u[2] \in {Locale, UpperLocale}
    /\ u[3] = TrackSeg
    /\ u[4] \in IdChars

\* the same url without that segment
WithoutLocale(u) == <<u[1]>> \o SubSeq(u, 3, Len(u))

\* C21: for every track url with a locale segment, whatever the case of the
\* locale code, normalize_spotify_url returns what it returns for the url
\* without the segment.
C21_LocaleStrippedAnyCase ==
    (pc = "normalized" /\ IsLocaleTrackUrl(line))
      => normalized_url = NormalizeSpotifyUrl(WithoutLocale(line))

\* C21, amended: this holds when the locale code is two lower-case letters.
C21_LowerCaseLocaleStripped ==
    (pc = "normalized" /\ IsLocaleTrackUrl(line) /\ line[2] = Locale)
      => normalized_url = NormalizeSpotifyUrl(WithoutLocale(line))

C21_Witness ==
    /\ pc = "normalized"
    /\ IsLocaleTrackUrl(line)
    /\ line[2] = Locale
    /\ normalized_url = <<Host, TrackSeg, line[4]>>

----------------------------------------------------------------------------
(* read_songs_from_file, applied to files of a few lines *)

\* most lines of a file
MaxLines == 3

\* lines a file is made of: blank ones, comments, track urls with and
\* without a locale segment, with surrounding blanks or a query, and a
\* playlist url
SampleLines ==
    { <<>>,
      <<Space>>,
      <<Hash, Host, TrackSeg, "a">>,
      <<Host, TrackSeg, "a">>,
      <<Host, Locale, TrackSeg, "a">>,
      <<Space, Host, TrackSeg, "a", Query, Space>>,
      <<Host, TrackSeg, "7">>,
      <<Host, Locale, TrackSeg, "7", "a">>,
      <<Host, Playlist, "a">> }

Files == UNION {[1..n -> SampleLines] : n \in 0..MaxLines}

\* what read_songs_from_file returns: None, or the list urls
ReturnedNone == [none |-> TRUE, urls |-> <<>>]
Returned(list) == [none |-> FALSE, urls |-> list]

\* lines 895-911 with line 899 testing the line as written, not the
\* normalized url
ReadLineRawSeen(acc, raw) ==
    LET l == Strip(raw)
    IN  IF l = <<>> \/ Head(l) = Hash THEN acc
        ELSE IF IsValidSpotifyTrackUrl(l)
        THEN IF l \in acc.seen_urls THEN acc
             ELSE [acc EXCEPT !.seen_urls = @ \cup {l},
                              !.urls = Append(@, NormalizeSpotifyUrl(l))]
        ELSE [acc EXCEPT !.invalid_urls = Append(@, l)]

\* lines 895-911: one turn of the loop over the lines; acc holds urls,
\* invalid_urls and seen_urls
ReadLine(acc, raw) ==
    LET l == Strip(raw)
    IN  IF l = <<>> \/ Head(l) = Hash THEN acc
        ELSE IF IsValidSpotifyTrackUrl(l)
        THEN IF NormalizeSpotifyUrl(l) \in acc.seen_urls THEN acc
             ELSE [acc EXCEPT !.seen_urls = @ \cup {NormalizeSpotifyUrl(l)},
                              !.urls = Append(@, NormalizeSpotifyUrl(l))]
        ELSE [acc EXCEPT !.invalid_urls = Append(@, l)]

\* lines 891-911: the loop
RECURSIVE ReadLoop(_, _)
ReadLoop(acc, ls) ==
    IF ls = <<>> THEN acc ELSE ReadLoop(ReadLine(acc, Head(ls)), Tail(ls))

\* lines 887-925 without lines 913-917: the invalid lines are left out
ReadSongsFromFileLenient(ls) ==
    LET acc == ReadLoop([urls |-> <<>>, invalid_urls |-> <<>>, seen_urls |-> {}], ls)
    IN  IF acc.urls = <<>> THEN ReturnedNone ELSE Returned(acc.urls)

\* lines 887-925, for a file that exists and is read without an exception
ReadSongsFromFile(ls) ==
    LET acc == ReadLoop([urls |-> <<>>, invalid_urls |-> <<>>, seen_urls |-> {}], ls)
    IN  IF acc.invalid_urls # <<>> THEN ReturnedNone
        ELSE IF acc.urls = <<>> THEN ReturnedNone
        ELSE Returned(acc.urls)

InitFile ==
    /\ pc = "file"
    /\ dir = <<>>
    /\ expected_filename = None
    /\ existing_files = {}
    /\ Idle
    /\ line = <<>>
    /\ valid = FALSE
    /\ normalized_url = <<>>
    /\ lines \in Files
    /\ read_result = <<>>
    /\ NoAux

\* lines 880-928: one call of read_songs_from_file
ReadCall ==
    /\ pc = "file"
    /\ read_result' = ReadSongsFromFile(lines)
    /\ pc' = "read"
    /\ UNCHANGED <<i, stats, fallback_downloads, batch_result, dir, song_info,
                   expected_filename, existing_files, attempt, result,
                   clean_query, yt_success, latest_file, success,
                   verify_result, primary_calls, fallback_calls, all_nonzero,
                   fb_before, renamed_from, via, fallback_expected>>
    /\ UNCHANGED <<line, valid, normalized_url, lines>>
    /\ UNCHANGED auxVars

\* lines 935-941 of download_multiple_songs: without urls it returns False
\* at once, with urls it goes on to get_unique_download_folder
OpenBatch ==
    /\ pc = "read"
    /\ IF read_result.none \/ read_result.urls = <<>>
       THEN pc' = "done" /\ batch_result' = "False"
       ELSE pc' = "folder" /\ batch_result' = batch_result
    /\ UNCHANGED <<i, stats, fallback_downloads, dir, song_info,
                   expected_filename, existing_files, attempt, result,
                   clean_query, yt_success, latest_file, success,
                   verify_result, primary_calls, fallback_calls, all_nonzero,
                   fb_before, renamed_from, via, fallback_expected>>
    /\ UNCHANGED textVars
    /\ UNCHANGED auxVars

NextFile == ReadCall \/ OpenBatch

SpecFile == InitFile /\ [][NextFile]_vars

\* the stripped lines of a file that are neither blank nor comments
UrlLines(ls) ==
    SelectSeq([k \in 1..Len(ls) |-> Strip(ls[k])],
              LAMBDA l : l # <<>> /\ Head(l) # Hash)

\* a sequence without the later occurrences of its elements
RECURSIVE FirstOccurrences(_)
FirstOccurrences(seq) ==
    IF seq = <<>> THEN <<>>
    ELSE LET front == SubSeq(seq, 1, Len(seq) - 1)
             last == seq[Len(seq)]
         IN  IF \E j \in 1..Len(front) : front[j] = last
             THEN FirstOccurrences(front)
             ELSE Append(FirstOccurrences(front), last)

\* the normalized urls of the url lines, each once, in first-occurrence order
ExpectedUrls(ls) ==
    FirstOccurrences([k \in 1..Len(UrlLines(ls)) |-> NormalizeSpotifyUrl(UrlLines(ls)[k])])

NoInvalidLine(ls) ==
    \A k \in 1..Len(UrlLines(ls)) : IsValidSpotifyTrackUrl(UrlLines(ls)[k])

\* C19: for a file without an invalid line, read_songs_from_file returns
\* the normalized urls of its non-blank, non-comment lines, each once, in
\* first-occurrence order.
C19_ReturnsDeduplicatedUrls ==
    (pc = "read" /\ NoInvalidLine(lines))
      => read_result = Returned(ExpectedUrls(lines))

\* C19, amended: this holds for a file that has such a line; for a file
\* whose lines are all blank or comments read_songs_from_file returns None.
C19_ReturnsDeduplicatedUrlsOrNone ==
    (pc = "read" /\ NoInvalidLine(lines))
      => read_result = (IF ExpectedUrls(lines) = <<>>
                        THEN ReturnedNone
                        ELSE Returned(ExpectedUrls(lines)))

C19_Witness ==
    /\ pc = "read"
    /\ NoInvalidLine(lines)
    /\ Len(UrlLines(lines)) = 3
    /\ Len(read_result.urls) = 2
    /\ lines[1] # lines[2]
    /\ NormalizeSpotifyUrl(Strip(lines[1])) = NormalizeSpotifyUrl(Strip(lines[2]))

\* C30: a file with a non-blank, non-comment line that is no valid track
\* url is rejected as a whole: read_songs_from_file returns None, and
\* download_multiple_songs returns False without getting to the choice of
\* the output directory and without a call of a download tool.
C30_InvalidLineRejectsFile ==
    /\ []((pc \in {"read", "done", "folder"} /\ ~NoInvalidLine(lines))
            => (read_result = ReturnedNone /\ pc # "folder"))
    /\ [][(pc = "read" /\ ~NoInvalidLine(lines))
            => (/\ pc' = "done"
                /\ batch_result' = "False"
                /\ dir' = dir
                /\ primary_calls' = 0
                /\ fallback_calls' = 0)]_vars

C30_Witness ==
    /\ pc = "done"
    /\ batch_result = "False"
    /\ ~NoInvalidLine(lines)
    /\ \E k \in 1..Len(lines) : IsValidSpotifyTrackUrl(lines[k])

----------------------------------------------------------------------------
(* get_unique_download_folder, lines 1054-1073, and its call at lines      *)
(* 941-945 of download_multiple_songs                                      *)

\* number of the paths base, base0, base1, ... that the working directory
\* may hold; the paths after them do not exist
MaxFolders == 3

\* what a path can be: nothing, a regular file, or a directory holding mp3
\* files and possibly entries of other kinds
Absent == [kind |-> "absent", mp3 |-> <<>>, other |-> FALSE]
RegularFile == [kind |-> "file", mp3 |-> <<>>, other |-> FALSE]
Folder(mp3, other) == [kind |-> "dir", mp3 |-> mp3, other |-> other]

OneMp3 == CHOOSE d \in Directories : Cardinality(DOMAIN d) = 1

FolderStates ==
    {Absent, RegularFile} \cup {Folder(m, o) : m \in {<<>>, OneMp3}, o \in BOOLEAN}

\* the path examined k-th: base for k = 1, base0 for k = 2, ...
FolderAt(fs, k) == IF k \in DOMAIN fs THEN fs[k] ELSE Absent

\* Path.exists()
Exists(f) == f.kind # "absent"

\* any(folder.iterdir()): iterdir raises on a path that is not a directory
AnyIterdir(f) ==
    IF f.kind = "file" THEN Raised("NotADirectoryError")
    ELSE Value(DOMAIN f.mp3 # {} \/ f.other)

\* lines 1059-1064 and 1069-1072: whether the path is returned
Examine(f) ==
    IF ~Exists(f) THEN Value(TRUE)
    ELSE LET entries == AnyIterdir(f)
         IN  IF entries.raised # "no" THEN entries ELSE Value(~entries.value)

\* lines 1067-1073: the while loop
RECURSIVE NewFolder(_, _)
NewFolder(fs, counter) ==
    LET e == Examine(FolderAt(fs, counter + 2))
    IN  IF e.raised # "no" THEN e
        ELSE IF e.value THEN Value(counter + 2)
        ELSE NewFolder(fs, counter + 1)

\* lines 1054-1073: the number of the path returned, or the exception
GetUniqueDownloadFolder(fs) ==
    LET e == Examine(FolderAt(fs, 1))
    IN  IF e.raised # "no" THEN e
        ELSE IF e.value THEN Value(1)
        ELSE NewFolder(fs, 0)

InitFolder ==
    /\ pc = "folder"
    /\ dir = <<>>
    /\ expected_filename = None
    /\ existing_files = {}
    /\ Idle
    /\ NoText
    /\ foreign = {}
    /\ twin = <<>>
    /\ folders \in [1..MaxFolders -> FolderStates]
    /\ output_dir = 0
    /\ NoPlaylist
    /\ error_summary = <<>>

\* line 941: the call of get_unique_download_folder
ChooseFolder ==
    /\ pc = "folder"
    /\ LET r == GetUniqueDownloadFolder(folders)
       IN  IF r.raised # "no"
           THEN pc' = "raised" /\ output_dir' = output_dir
           ELSE pc' = "mkdir" /\ output_dir' = r.value
    /\ UNCHANGED <<i, stats, fallback_downloads, batch_result, dir, song_info,
                   expected_filename, existing_files, attempt, result,
                   clean_query, yt_success, latest_file, success,
                   verify_result, primary_calls, fallback_calls, all_nonzero,
                   fb_before, renamed_from, via, fallback_expected>>
    /\ UNCHANGED textVars
    /\ UNCHANGED <<foreign, twin, folders>>
    /\ UNCHANGED playlistVars
    /\ UNCHANGED error_summary

\* lines 942-955: mkdir(exist_ok=True) makes the directory if it is not
\* there; the batch goes on in it
MakeDir ==
    /\ pc = "mkdir"
    /\ folders' = IF output_dir \in DOMAIN folders /\ ~Exists(folders[output_dir])
                  THEN [folders EXCEPT ![output_dir] = Folder(<<>>, FALSE)]
                  ELSE folders
    /\ dir' = FolderAt(folders, output_dir).mp3
    /\ pc' = "loop"
    /\ UNCHANGED <<i, stats, fallback_downloads, batch_result, song_info,
                   expected_filename, existing_files, attempt, result,
                   clean_query, yt_success, latest_file, success,
                   verify_result, primary_calls, fallback_calls, all_nonzero,
                   fb_before, renamed_from, via, fallback_expected>>
    /\ UNCHANGED textVars
    /\ UNCHANGED <<foreign, twin, output_dir>>
    /\ UNCHANGED playlistVars
    /\ UNCHANGED error_summary

NextFolder == ChooseFolder \/ MakeDir \/ StartItem

SpecFolder == InitFolder /\ [][NextFolder]_vars

\* a path that does not exist or is an empty directory
Free(f) == ~Exists(f) \/ (f.kind = "dir" /\ DOMAIN f.mp3 = {} /\ ~f.other)

\* the first of base, base0, base1, ... that is free
FirstFree(fs) ==
    CHOOSE k \in 1..(Len(fs) + 1) :
        /\ Free(FolderAt(fs, k))
        /\ \A j \in 1..(k - 1) : ~Free(FolderAt(fs, j))

\* C31: once get_unique_download_folder has been called, the output
\* directory is the first of base, base0, base1, ... that does not exist or
\* is empty, and the first item starts with no mp3 file in it.
C31_FirstFreeFolderChosen ==
    /\ pc # "folder" => output_dir = FirstFree(folders)
    /\ pc = "primary" => existing_files = {}

----------------------------------------------------------------------------
(* fetch_playlist_urls, lines 415-542 *)

\* line 415: the default of the parameter max_retries, with which line 614
\* calls the function
playlist_max_retries == 3

\* largest number of entries of the metadata list
MaxItems == 2

\* the entries the metadata list can have: [dict] an object or something
\* else, [haskey] with a 'url' key, [str] whose value is a string, [url]
Entry(dict, haskey, str, url) ==
    [dict |-> dict, haskey |-> haskey, str |-> str, url |-> url]

Entries ==
    {Entry(TRUE, TRUE, TRUE, TrackPrefix \o <<c>>) : c \in IdChars}
    \cup {Entry(TRUE, TRUE, TRUE, <<Host, Locale, TrackSeg, "a">>),
          Entry(TRUE, TRUE, TRUE, <<Host, Playlist, "a">>),
          Entry(TRUE, TRUE, FALSE, <<>>),
          Entry(TRUE, FALSE, FALSE, <<>>),
          Entry(FALSE, FALSE, FALSE, <<>>)}

EntryLists == UNION {[1..n -> Entries] : n \in 0..MaxItems}

\* what the file can hold: nothing, white space, text that is not JSON, a
\* JSON number, a JSON object, or a JSON list
Content(kind, items) == [kind |-> kind, items |-> items]

Contents ==
    {Content(k, <<>>) : k \in {"empty", "blank", "malformed", "number", "object"}}
    \cup {Content("list", l) : l \in EntryLists}

\* the file temp_playlist_metadata.spotdl
NoFile == [exists |-> FALSE, content |-> Content("empty", <<>>)]
MetaFile(content) == [exists |-> TRUE, content |-> content]
MetaFiles == {NoFile} \cup {MetaFile(c) : c \in Contents}

\* Path.unlink(): the file is gone, or the call raises and the file stays
UnlinkResults(f) == {NoFile, f}

\* lines 499-502 keeping every 'url' value
RECURSIVE SongUrlsAnyUrl(_, _)
SongUrlsAnyUrl(song_urls, items) ==
    IF items = <<>> THEN Value(song_urls)
    ELSE LET item == Head(items)
         IN  IF item.dict /\ item.haskey
             THEN IF ~item.str THEN Raised("AttributeError")
                  ELSE SongUrlsAnyUrl(Append(song_urls, item.url), Tail(items))
             ELSE SongUrlsAnyUrl(song_urls, Tail(items))

\* lines 499-502: the loop over the entries; startswith on a value that is
\* not a string raises
RECURSIVE SongUrls(_, _)
SongUrls(song_urls, items) ==
    IF items = <<>> THEN Value(song_urls)
    ELSE LET item == Head(items)
         IN  IF item.dict /\ item.haskey
             THEN IF ~item.str THEN Raised("AttributeError")
                  ELSE IF StartsWith(item.url, TrackPrefix)
                  THEN SongUrls(Append(song_urls, item.url), Tail(items))
                  ELSE SongUrls(song_urls, Tail(items))
             ELSE SongUrls(song_urls, Tail(items))

\* lines 478-507 after a zero return code: the list of urls, an empty list
\* where the code says "continue", or the exception
Extracted(f) ==
    IF ~f.exists THEN Value(<<>>)
    ELSE IF f.content.kind \in {"empty", "blank"} THEN Value(<<>>)
    ELSE IF f.content.kind = "malformed" THEN Raised("JSONDecodeError")
    ELSE IF f.content.kind = "number" THEN Raised("TypeError")
    ELSE IF f.content.kind = "object" THEN Value(<<>>)
    ELSE SongUrls(<<>>, f.content.items)

\* whether the attempt gets to line 510 with a list of urls
Yields(end, f) ==
    /\ end = "zero"
    /\ Extracted(f).raised = "no"
    /\ Extracted(f).value # <<>>

\* how subprocess.run(cmd, capture_output=True, text=True, timeout=180) can end
SaveEnds == {"zero", "nonzero", "timeout", "oserror"}

\* the values of a Python variable that may be None
PyNone == [none |-> TRUE, val |-> <<>>]
Some(v) == [none |-> FALSE, val |-> v]

\* lines 540-542
GaveUpMessage == <<"No se pudo obtener la playlist despues de multiples intentos">>

InitPlaylist ==
    /\ pc = "fetch"
    /\ dir = <<>>
    /\ expected_filename = None
    /\ existing_files = {}
    /\ Idle
    /\ NoText
    /\ foreign = {}
    /\ twin = <<>>
    /\ NoFolder
    /\ temp_metadata \in {NoFile, MetaFile(Content("list", <<>>))}
    /\ save_calls = 0
    /\ playlist_result = <<>>
    /\ error_summary = <<>>

\* lines 419-457: the start of an attempt: a file left from before is
\* removed, then the tool runs; when the removal raises the attempt is over
FetchInvoke ==
    /\ pc = "fetch"
    /\ attempt < playlist_max_retries
    /\ \/ /\ temp_metadata \in UnlinkResults(temp_metadata) \ {NoFile}
          /\ attempt' = attempt + 1
          /\ UNCHANGED <<pc, result, temp_metadata, save_calls>>
       \/ /\ \E end \in SaveEnds, f \in MetaFiles :
                /\ end = "oserror" => f = NoFile
                /\ result' = end
                /\ temp_metadata' = f
          /\ save_calls' = save_calls + 1
          /\ pc' = "fetch_check"
          /\ UNCHANGED attempt
    /\ UNCHANGED <<i, stats, fallback_downloads, batch_result, dir, song_info,
                   expected_filename, existing_files, clean_query, yt_success,
                   latest_file, success, verify_result, primary_calls,
                   fallback_calls, all_nonzero, fb_before, renamed_from, via,
                   fallback_expected, playlist_result>>
    /\ UNCHANGED textVars
    /\ UNCHANGED <<foreign, twin, error_summary>>
    /\ UNCHANGED folderVars

\* lines 459-532: the rest of the attempt: with a list of urls the file is
\* removed and the list returned; everything else, a failed removal
\* included, leads to the next attempt
FetchCheck ==
    /\ pc = "fetch_check"
    /\ result' = "none"
    /\ IF Yields(result, temp_metadata)
       THEN \E after \in UnlinkResults(temp_metadata) :
               /\ temp_metadata' = after
               /\ IF after = NoFile
                  THEN /\ playlist_result' =
                             [urls |-> Some(Extracted(temp_metadata).value),
                              error |-> PyNone]
                       /\ pc' = "fetched"
                       /\ UNCHANGED attempt
                  ELSE /\ attempt' = attempt + 1
                       /\ pc' = "fetch"
                       /\ UNCHANGED playlist_result
       ELSE /\ attempt' = attempt + 1
            /\ pc' = "fetch"
            /\ UNCHANGED <<temp_metadata, playlist_result>>
    /\ UNCHANGED <<i, stats, fallback_downloads, batch_result, dir, song_info,
                   expected_filename, existing_files, clean_query, yt_success,
                   latest_file, success, verify_result, primary_calls,
                   fallback_calls, all_nonzero, fb_before, renamed_from, via,
                   fallback_expected, save_calls>>
    /\ UNCHANGED textVars
    /\ UNCHANGED <<foreign, twin, error_summary>>
    /\ UNCHANGED folderVars

\* lines 534-542: after the last attempt the file is removed if it is there,
\* a failure of the removal is passed over, and (None, message) is returned
FetchGiveUp ==
    /\ pc = "fetch"
    /\ attempt >= playlist_max_retries
    /\ temp_metadata' \in UnlinkResults(temp_metadata)
    /\ playlist_result' = [urls |-> PyNone, error |-> Some(GaveUpMessage)]
    /\ pc' = "fetched"
    /\ UNCHANGED <<i, stats, fallback_downloads, batch_result, dir, song_info,
                   expected_filename, existing_files, attempt, result,
                   clean_query, yt_success, latest_file, success,
                   verify_result, primary_calls, fallback_calls, all_nonzero,
                   fb_before, renamed_from, via, fallback_expected, save_calls>>
    /\ UNCHANGED textVars
    /\ UNCHANGED <<foreign, twin, error_summary>>
    /\ UNCHANGED folderVars

NextPlaylist == FetchInvoke \/ FetchCheck \/ FetchGiveUp

SpecPlaylist == InitPlaylist /\ [][NextPlaylist]_vars

\* the two forms of the returned pair: (urls, None) with at least one url,
\* each with the canonical track prefix, or (None, message)
ReturnedPair(r) ==
    \/ /\ ~r.urls.none
       /\ r.error.none
       /\ r.urls.val # <<>>
       /\ \A k \in 1..Len(r.urls.val) : StartsWith(r.urls.val[k], TrackPrefix)
    \/ /\ r.urls.none
       /\ ~r.error.none
       /\ r.error.val = GaveUpMessage

\* C32 as stated: fetch_playlist_urls invokes the tool at most max_retries
\* times, stops at the first attempt that yields a non-empty list of track
\* urls, returns (urls, None) or (None, message), and on either return the
\* temporary metadata file does not exist.
C32_FetchStopsAndCleansUp ==
    /\ [](save_calls <= playlist_max_retries)
    /\ [][pc = "fetch_check" /\ Yields(result, temp_metadata)
            => pc' = "fetched"]_vars
    /\ [](pc = "fetched" => ReturnedPair(playlist_result) /\ ~temp_metadata.exists)

\* C32 amended: fetch_playlist_urls invokes the tool at most max_retries
\* times; an attempt that yields a non-empty list of track urls ends the
\* call with (that list, None) if the temporary file could be removed, and
\* is followed by the next attempt if not; the call returns (urls, None) or
\* (None, message); the file does not exist when urls are returned, and may
\* remain when (None, message) is returned.
C32_FetchStopsWhenFileRemoved ==
    /\ [](save_calls <= playlist_max_retries)
    /\ [][pc = "fetch_check" /\ Yields(result, temp_metadata)
            => IF temp_metadata'.exists
               THEN pc' = "fetch" /\ attempt' = attempt + 1
               ELSE /\ pc' = "fetched"
                    /\ playlist_result'.urls = Some(Extracted(temp_metadata).value)]_vars
    /\ [][pc' = "fetched" /\ ~Yields(result, temp_metadata)
            => playlist_result'.urls.none]_vars
    /\ [](pc = "fetched"
            => /\ ReturnedPair(playlist_result)
               /\ ~playlist_result.urls.none => ~temp_metadata.exists)

C32_Witness ==
    /\ pc = "fetched"
    /\ ~playlist_result.urls.none
    /\ Len(playlist_result.urls.val) = 1
    /\ save_calls = 2
    /\ attempt = 1

----------------------------------------------------------------------------
(* extract_spotdl_error, lines 14-42 *)

\* largest number of lines of the error output
MaxErrLines == 4

\* line 26: the keywords looked for in the lower-cased line
Keywords == {"error", "exception", "failed", "keyerror", "timeout"}

\* the texts of lines 26, 27 and 34 that the lower-cased chunk contains
Needles(c) ==
    IF c = "ERROR:" THEN {"error"}
    ELSE IF c = "failed" THEN {"failed"}
    ELSE IF c = "KeyError:" THEN {"error", "keyerror"}
    ELSE IF c = "Traceback" THEN {"traceback"}
    ELSE IF c = "File \"" THEN {"file \""}
    ELSE IF c = "Unable to find" THEN {"unable to find"}
    ELSE {}

\* needle in line.lower()
Contains(l, needle) == \E k \in 1..Len(l) : needle \in Needles(l[k])

\* lines the error output is made of: empty and blank ones, keyword lines,
\* keyword lines of a traceback, of a frame, indented and framed ones, a
\* message of the second search, and a plain line
StderrLines ==
    { <<>>,
      <<Space, Space>>,
      <<"ERROR:", "song">>,
      <<"song", "failed", Space>>,
      <<"Traceback", "ERROR:">>,
      <<"File \"", "failed">>,
      <<Space, Space, "KeyError:">>,
      <<"+--", "ERROR:">>,
      <<"Unable to find", "song">>,
      <<"song">> }

\* stderr_output.split('\n'): a string always splits into at least one line
StderrOutputs == UNION {[1..n -> StderrLines] : n \in 1..MaxErrLines}

\* line 16: "not stderr_output" holds for the string without characters
EmptyOutput(ls) == ls = << <<>> >>

\* line 17
UnknownError == <<"Error desconocido (sin output de error)">>

\* lines 26-28: the test of the first search
IsErrorLine(l) ==
    /\ \E keyword \in Keywords : Contains(l, keyword)
    /\ ~Contains(l, "traceback")
    /\ ~Contains(l, "file \"")
    /\ Strip(l) # <<>>
    /\ ~StartsWith(l, <<Space, Space>>)
    /\ ~StartsWith(l, <<"+--">>)

\* lines 23-29: the first search
RECURSIVE ErrorLines(_)
ErrorLines(ls) ==
    IF ls = <<>> THEN <<>>
    ELSE IF IsErrorLine(Head(ls)) THEN <<Strip(Head(ls))>> \o ErrorLines(Tail(ls))
    ELSE ErrorLines(Tail(ls))

\* lines 32-35: the second search
RECURSIVE KeyMessages(_)
KeyMessages(ls) ==
    IF ls = <<>> THEN <<>>
    ELSE IF Contains(Head(ls), "unable to find") \/ Contains(Head(ls), "keyerror")
    THEN <<Strip(Head(ls))>> \o KeyMessages(Tail(ls))
    ELSE KeyMessages(Tail(ls))

\* line 40: the lines with content, stripped
RECURSIVE WithContent(_)
WithContent(ls) ==
    IF ls = <<>> THEN <<>>
    ELSE IF Strip(Head(ls)) # <<>> THEN <<Strip(Head(ls))>> \o WithContent(Tail(ls))
    ELSE WithContent(Tail(ls))

\* line 40: lines[-3:]
LastThree(ls) == SubSeq(ls, IF Len(ls) > 3 THEN Len(ls) - 2 ELSE 1, Len(ls))

\* line 42: error_lines[:2]
FirstTwo(ls) == SubSeq(ls, 1, IF Len(ls) > 2 THEN 2 ELSE Len(ls))

\* line 42: " | ".join(...)
RECURSIVE Join(_)
Join(ls) ==
    IF ls = <<>> THEN <<>>
    ELSE IF Len(ls) = 1 THEN ls[1]
    ELSE ls[1] \o <<" | ">> \o Join(Tail(ls))

\* lines 14-42
ExtractSpotdlError(ls) ==
    IF EmptyOutput(ls) THEN UnknownError
    ELSE LET first == ErrorLines(ls)
             second == IF first = <<>> THEN KeyMessages(ls) ELSE first
             error_lines == IF second = <<>> THEN WithContent(LastThree(ls)) ELSE second
         IN  Join(FirstTwo(error_lines))

InitError ==
    /\ pc = "stderr"
    /\ dir = <<>>
    /\ expected_filename = None
    /\ existing_files = {}
    /\ Idle
    /\ line = <<>>
    /\ valid = FALSE
    /\ normalized_url = <<>>
    /\ lines \in StderrOutputs
    /\ read_result = <<>>
    /\ foreign = {}
    /\ twin = <<>>
    /\ NoFolder
    /\ NoPlaylist
    /\ error_summary = <<>>

\* lines 14-42: one call of extract_spotdl_error
ExtractCall ==
    /\ pc = "stderr"
    /\ error_summary' = ExtractSpotdlError(lines)
    /\ pc' = "extracted"
    /\ UNCHANGED <<i, stats, fallback_downloads, batch_result, dir, song_info,
                   expected_filename, existing_files, attempt, result,
                   clean_query, yt_success, latest_file, success,
                   verify_result, primary_calls, fallback_calls, all_nonzero,
                   fb_before, renamed_from, via, fallback_expected>>
    /\ UNCHANGED textVars
    /\ UNCHANGED <<foreign, twin>>
    /\ UNCHANGED folderVars
    /\ UNCHANGED playlistVars

NextError == ExtractCall

SpecError == InitError /\ [][NextError]_vars

\* the last three of the lines with content
LastThreeWithContent(ls) == LastThree(WithContent(ls))

\* the summaries made of one or two of the lines of ls, in their order
Summaries(ls) ==
    {Join(<<ls[j]>>) : j \in 1..Len(ls)}
    \cup {Join(<<ls[p[1]], ls[p[2]]>>) :
             p \in {q \in (1..Len(ls)) \X (1..Len(ls)) : q[1] < q[2]}}

\* C33: extract_spotdl_error returns a non-empty summary: for empty error
\* output the fixed unknown-error message; else the first two lines that
\* contain a keyword and are not traceback or frame lines, in their order;
\* else, when no line matches, one or two of the last three non-empty lines.
C33_SummaryOfKeywordOrLastLines ==
    pc = "extracted"
      => /\ error_summary # <<>>
         /\ IF EmptyOutput(lines) THEN error_summary = UnknownError
            ELSE IF ErrorLines(lines) # <<>>
            THEN error_summary = Join(FirstTwo(ErrorLines(lines)))
            ELSE error_summary \in Summaries(LastThreeWithContent(lines))

====
